---- MODULE Spec2Model ----
(***************************************************************************)
(* A model of the ConfigMap replicator controller                          *)
(* (src/cmd/controller/controller.go, the annotation-driven controller of  *)
(* package controller, lines 48-364).                                      *)
(*                                                                         *)
(* Strings that the code splits or concatenates (namespace names, object   *)
(* names, annotation values) are sequences of atoms: "team1,team2" is      *)
(* <<"team1", ",", "team2">> and strings.Split cuts it at the "," atoms.   *)
(* Annotation keys and data values are never taken apart and stay TLA+     *)
(* strings.                                                                *)
(*                                                                         *)
(* The store is the Kubernetes API: one object per (namespace, name), a    *)
(* Create of an existing object fails, an Update replaces data and         *)
(* annotations, every change of an object is a watch event.  The informer  *)
(* of Run delivers the watch events one at a time, in order, to AddFunc,   *)
(* UpdateFunc and DeleteFunc, and on a resync hands every cached object to *)
(* UpdateFunc with the same object as old and new.                         *)
(***************************************************************************)
EXTENDS Integers, Sequences, FiniteSets, Bags, TLC

VARIABLES
    objects,    \* the store: <<namespace, name>> -> ConfigMap
    queue,      \* watch and resync notifications not yet handled, in order
    known,      \* the informer's cache: the objects already notified
    tasks,      \* bag of the goroutines started by "go ..." and still running
    envOps,     \* number of external operations and resync ticks so far
    running,    \* the controller process is alive (no panic so far)
    waiting,    \* the store call the informer's goroutine is inside and that
                \* never returns: "list" or "delete", "none" when there is none
    call        \* the call taken by itself, a pure function or the start of
                \* the process: its name, arguments and result; in the
                \* running controller, the Namespaces().List call of the
                \* handler called last (NoCall when it made none)

vars == <<objects, queue, known, tasks, envOps, running, waiting, call>>

NoCall == [fn |-> "none", args |-> <<>>, result |-> <<>>]

\* Bound on the operations of external actors and resync ticks in one run.
MaxEnvOps == 2

(***************************************************************************)
(* Names                                                                   *)
(***************************************************************************)
annotationKey == "configmap-replicator"
replicatedFromKey == "replicated-from"
replicationAllowedKey == "replication-allowed"
allowedNamespacesKey == "allowed-namespaces"
excludedNamespacesKey == "excluded-namespaces"

\* fmt.Sprintf("%s/%s", annotationKey, key)
AnnotationName(key) == annotationKey \o "/" \o key

Team1 == <<"team1">>
Team2 == <<"team2">>
KubeSystem == <<"kube-system">>
AppConfig == <<"app-config">>

\* Namespaces().List: the namespaces of the cluster, in the order listed.
Namespaces == <<KubeSystem, Team1, Team2>>

\* The value of the excluded-namespaces flag when it is not given.
DefaultExcludedNamespaces == <<KubeSystem>>

Range(s) == {s[i] : i \in 1..Len(s)}

(***************************************************************************)
(* Pure functions of the controller                                        *)
(***************************************************************************)
\* A piece without the blanks at its ends.
RECURSIVE TrimSpace(_)
TrimSpace(s) ==
    IF s # <<>> /\ s[1] = " " THEN TrimSpace(SubSeq(s, 2, Len(s)))
    ELSE IF s # <<>> /\ s[Len(s)] = " " THEN TrimSpace(SubSeq(s, 1, Len(s) - 1))
    ELSE s

\* A split that trims each piece.
RECURSIVE SplitTrimmed(_)
SplitTrimmed(s) ==
    IF \E i \in 1..Len(s) : s[i] = ","
    THEN LET i == CHOOSE j \in 1..Len(s) :
                      s[j] = "," /\ \A k \in 1..(j - 1) : s[k] # ","
         IN  <<TrimSpace(SubSeq(s, 1, i - 1))>> \o SplitTrimmed(SubSeq(s, i + 1, Len(s)))
    ELSE <<TrimSpace(s)>>

\* strings.Split(s, ","): the pieces between the commas; one piece, s itself,
\* when s holds no comma (so one empty piece for the empty string).
RECURSIVE Split(_)
Split(s) ==
    IF \E i \in 1..Len(s) : s[i] = ","
    THEN LET i == CHOOSE j \in 1..Len(s) :
                      s[j] = "," /\ \A k \in 1..(j - 1) : s[k] # ","
         IN  <<SubSeq(s, 1, i - 1)>> \o Split(SubSeq(s, i + 1, Len(s)))
    ELSE <<s>>

\* strconv.ParseBool: the literals it accepts, and an error for anything else.
ParseBool(v) ==
    IF v \in {<<"1">>, <<"t">>, <<"T">>, <<"TRUE">>, <<"true">>, <<"True">>}
    THEN [ok |-> TRUE, value |-> TRUE]
    ELSE IF v \in {<<"0">>, <<"f">>, <<"F">>, <<"FALSE">>, <<"false">>, <<"False">>}
    THEN [ok |-> TRUE, value |-> FALSE]
    ELSE [ok |-> FALSE, value |-> FALSE]

replicateEnabled(configMap) ==
    IF AnnotationName(replicationAllowedKey) \notin DOMAIN configMap.annotations
    THEN FALSE
    ELSE LET parsed == ParseBool(configMap.annotations[AnnotationName(replicationAllowedKey)])
         IN  IF ~parsed.ok THEN FALSE ELSE parsed.value

getAllowedNamespaces(configMap) ==
    IF AnnotationName(allowedNamespacesKey) \notin DOMAIN configMap.annotations
    THEN <<>>
    ELSE Split(configMap.annotations[AnnotationName(allowedNamespacesKey)])

getExcludedNamespaces(configMap) ==
    IF AnnotationName(excludedNamespacesKey) \notin DOMAIN configMap.annotations
    THEN <<>>
    ELSE Split(configMap.annotations[AnnotationName(excludedNamespacesKey)])

\* A scan that looks at the first element only.
ListContainsFirst(s, e) == s # <<>> /\ Head(s) = e

\* utils.ListContains: scan s for e.
RECURSIVE ListContains(_, _)
ListContains(s, e) ==
    IF s = <<>> THEN FALSE
    ELSE IF Head(s) = e THEN TRUE
    ELSE ListContains(Tail(s), e)

\* An overlap test that compares the two slices position by position.
SlicesOverlapAligned(slice1, slice2) ==
    \E i \in 1..Len(slice2) : i <= Len(slice1) /\ slice1[i] = slice2[i]

\* utils.SlicesOverlap: the elements of slice1 go into the map seen, then
\* slice2 is scanned for an element that is in it.
SlicesOverlap(slice1, slice2) ==
    LET seen == Range(slice1)
    IN  \E i \in 1..Len(slice2) : slice2[i] \in seen

\* TRUE when validateConfiguration returns nil.
validateConfiguration(configMap) ==
    ~SlicesOverlap(getAllowedNamespaces(configMap), getExcludedNamespaces(configMap))

\* A provenance value with "-" between namespace and name.
ReplicatedFromDash(configMap) == configMap.namespace \o <<"-">> \o configMap.name

\* configMap.Namespace + "_" + configMap.Name
ReplicatedFrom(configMap) == configMap.namespace \o <<"_">> \o configMap.name

\* A replica whose provenance names the target namespace, not the source's.
NewConfigMapOfTarget(configMap, ns) ==
    [namespace |-> ns,
     name |-> configMap.name,
     annotations |-> (AnnotationName(replicatedFromKey) :> (ns \o <<"_">> \o configMap.name)),
     data |-> configMap.data]

\* The object createConfigMap and updateConfigMap build for namespace ns.
NewConfigMap(configMap, ns) ==
    [namespace |-> ns,
     name |-> configMap.name,
     annotations |-> (AnnotationName(replicatedFromKey) :> ReplicatedFrom(configMap)),
     data |-> configMap.data]

(***************************************************************************)
(* The handlers: which namespaces each one acts on.  listOk says whether   *)
(* Namespaces().List returned without an error.                            *)
(***************************************************************************)
\* The loop over namespaces.Items of the add and update handlers.
ListedTargets(configMap, items) ==
    SelectSeq(items, LAMBDA ns :
        /\ configMap.namespace # ns
        /\ ~ListContains(getExcludedNamespaces(configMap), ns))

\* addConfigMapAcrossNamespaces without the check of the error of
\* Namespaces().List: the loop runs over the namespaces whatever it returned.
addConfigMapListUnchecked(configMap, listOk) ==
    IF ~validateConfiguration(configMap) THEN <<>>
    ELSE IF ~replicateEnabled(configMap) THEN <<>>
    ELSE IF Len(getAllowedNamespaces(configMap)) > 0
         THEN getAllowedNamespaces(configMap)
         ELSE ListedTargets(configMap, Namespaces)

\* The namespaces addConfigMapAcrossNamespaces starts "go createConfigMap" for.
addConfigMapAcrossNamespaces(configMap, listOk) ==
    IF ~validateConfiguration(configMap) THEN <<>>
    ELSE IF ~replicateEnabled(configMap) THEN <<>>
    ELSE IF Len(getAllowedNamespaces(configMap)) > 0
         THEN getAllowedNamespaces(configMap)
         ELSE IF ~listOk THEN <<>>
              ELSE ListedTargets(configMap, Namespaces)

\* The namespaces updateConfigMapAcrossNamespaces starts "go updateConfigMap" for.
updateConfigMapAcrossNamespaces(currentConfigMap, updatedConfigMap, listOk) ==
    IF ~validateConfiguration(updatedConfigMap) THEN <<>>
    ELSE IF ~replicateEnabled(updatedConfigMap) THEN <<>>
    ELSE IF Len(getAllowedNamespaces(updatedConfigMap)) > 0
         THEN getAllowedNamespaces(updatedConfigMap)
         ELSE IF ~listOk THEN <<>>
              ELSE ListedTargets(updatedConfigMap, Namespaces)

\* The namespaces deleteConfigMapAcrossNamespaces calls Delete in, in order.
deleteConfigMapAcrossNamespaces(configMap, listOk) ==
    IF ~validateConfiguration(configMap) THEN <<>>
    ELSE IF ~replicateEnabled(configMap) THEN <<>>
    ELSE IF ~listOk THEN <<>>
    ELSE SelectSeq(Namespaces, LAMBDA ns :
             /\ configMap.namespace # ns
             /\ ~ListContains(getExcludedNamespaces(configMap), ns))

\* UpdateFunc: the snapshot it passes on as updatedConfigMap.
UpdateFuncUpdated(currentObj, newObj) == currentObj

(***************************************************************************)
(* State                                                                   *)
(***************************************************************************)
Key(obj) == <<obj.namespace, obj.name>>

Put(store, obj) == (Key(obj) :> obj) @@ store
Remove(store, key) == [k \in DOMAIN store \ {key} |-> store[k]]

Event(type, obj) == [type |-> type, obj |-> obj]

\* The goroutines one handler starts: one per element of targets.  event is
\* the notification the handler was called for.
Goroutines(event, path, configMap, targets) ==
    LET task(ns) == [event |-> event, path |-> path, cm |-> configMap, ns |-> ns,
                     pc |-> IF path = "create" THEN "create" ELSE "get"]
        started == {task(ns) : ns \in Range(targets)}
    IN  [t \in started |-> Cardinality({i \in 1..Len(targets) : targets[i] = t.ns})]

(***************************************************************************)
(* What external actors may write                                          *)
(***************************************************************************)
Enabled(v) == AnnotationName(replicationAllowedKey) :> v
Allowed(v) == AnnotationName(allowedNamespacesKey) :> v
Excluded(v) == AnnotationName(excludedNamespacesKey) :> v

AllowTeams == Enabled(<<"true">>) @@ Allowed(<<"team1", ",", "team2">>)

\* The annotations external actors give an object, per namespace: team1 holds
\* a source under every policy (the last one an allow-list that names team2
\* twice), kube-system a source with an allow-list.
ExternalChoices ==
    ({Team1} \X { <<>>,
                  Enabled(<<"true">>),
                  Enabled(<<"false">>),
                  Enabled(<<"yes">>),
                  AllowTeams,
                  Enabled(<<"true">>) @@ Excluded(<<"kube-system">>),
                  Enabled(<<"true">>) @@ Allowed(<<"team2">>) @@ Excluded(<<"team2">>),
                  Enabled(<<"true">>) @@ Allowed(<<"team2", ",", "team2">>) })
    \cup ({KubeSystem} \X { AllowTeams })

ExternalData == { ("key" :> "v1"), ("key" :> "v2") }

InitialData == ("key" :> "v1")

\* What the cluster may hold when the controller starts: nothing, an unrelated
\* object of the same name in team2, an enabled source in team1 with the
\* replica a previous run of the controller left in team2, or that source with
\* a replica in team2 that is stale (the source's data was changed while no
\* controller ran) and that someone has given an annotation of their own.
InitialSource ==
    [namespace |-> Team1, name |-> AppConfig,
     annotations |-> Enabled(<<"true">>), data |-> InitialData]

StaleReplica ==
    [NewConfigMap(InitialSource, Team2) EXCEPT
        !.annotations = @ @@ ("owner" :> <<"ops">>),
        !.data = ("key" :> "v2")]

InitialStores ==
    { <<>>,
      Put(<<>>, [namespace |-> Team2, name |-> AppConfig,
                 annotations |-> <<>>, data |-> InitialData]),
      Put(Put(<<>>, InitialSource), NewConfigMap(InitialSource, Team2)),
      Put(Put(<<>>, InitialSource), StaleReplica) }

\* The informer's first list: one ADDED notification per object found.
RECURSIVE ListEvents(_, _)
ListEvents(store, keys) ==
    IF keys = {} THEN <<>>
    ELSE LET k == CHOOSE x \in keys : TRUE
         IN  <<Event("ADDED", store[k])>> \o ListEvents(store, keys \ {k})

Init ==
    /\ objects \in InitialStores
    /\ queue = ListEvents(objects, DOMAIN objects)
    /\ known = <<>>
    /\ tasks = EmptyBag
    /\ envOps = 0
    /\ running = TRUE
    /\ waiting = "none"
    /\ call = NoCall

(***************************************************************************)
(* External actors and the resync timer.  To keep the state space small    *)
(* they act when the informer has delivered every pending notification     *)
(* (goroutines may still be running).                                      *)
(***************************************************************************)
Quiet == queue = <<>>

ExternalCreate(ns, annotations) ==
    LET obj == [namespace |-> ns, name |-> AppConfig,
                annotations |-> annotations, data |-> InitialData]
    IN  /\ envOps < MaxEnvOps
        /\ Quiet
        /\ Key(obj) \notin DOMAIN objects
        /\ objects' = Put(objects, obj)
        /\ queue' = Append(queue, Event("ADDED", obj))
        /\ envOps' = envOps + 1
        /\ UNCHANGED <<call, waiting, running, known, tasks>>

\* An external actor changes the annotations or the data of an object that
\* bears no replicated-from annotation.
ExternalUpdate(key, annotations, data) ==
    LET obj == [objects[key] EXCEPT !.annotations = annotations, !.data = data]
    IN  /\ envOps < MaxEnvOps
        /\ Quiet
        /\ key \in DOMAIN objects
        /\ AnnotationName(replicatedFromKey) \notin DOMAIN objects[key].annotations
        /\ (annotations = objects[key].annotations) # (data = objects[key].data)
        /\ objects' = Put(objects, obj)
        /\ queue' = Append(queue, Event("MODIFIED", obj))
        /\ envOps' = envOps + 1
        /\ UNCHANGED <<call, waiting, running, known, tasks>>

ExternalDelete(key) ==
    /\ envOps < MaxEnvOps
    /\ Quiet
    /\ key \in DOMAIN objects
    /\ objects' = Remove(objects, key)
    /\ queue' = Append(queue, Event("DELETED", objects[key]))
    /\ envOps' = envOps + 1
    /\ UNCHANGED <<call, waiting, running, known, tasks>>

\* An object is deleted while the informer's watch is broken: the informer
\* misses the change and finds the object gone at its next list; what it then
\* hands to DeleteFunc is a cache.DeletedFinalStateUnknown holding the object
\* as last seen.
ExternalDeleteUnseen(key) ==
    /\ envOps < MaxEnvOps
    /\ Quiet
    /\ key \in DOMAIN objects
    /\ key \in DOMAIN known
    /\ objects' = Remove(objects, key)
    /\ queue' = Append(queue, Event("DELETED_UNKNOWN", known[key]))
    /\ envOps' = envOps + 1
    /\ UNCHANGED <<call, waiting, running, known, tasks>>

\* The resync period has passed: every cached object is queued again, as it
\* is in the cache.
RECURSIVE SyncEvents(_)
SyncEvents(keys) ==
    IF keys = {} THEN <<>>
    ELSE LET k == CHOOSE x \in keys : TRUE
         IN  <<Event("SYNC", known[k])>> \o SyncEvents(keys \ {k})

Resync ==
    /\ envOps < MaxEnvOps
    /\ Quiet
    /\ known # <<>>
    /\ queue' = queue \o SyncEvents(DOMAIN known)
    /\ envOps' = envOps + 1
    /\ UNCHANGED <<call, waiting, running, objects, known, tasks>>

(***************************************************************************)
(* The informer: one notification at a time, in order, to the handlers.    *)
(* To keep the state space small a handler starts when the goroutines      *)
(* still running were all started by one earlier notification.             *)
(***************************************************************************)
Ready ==
    /\ running
    /\ waiting = "none"
    /\ queue # <<>>
    /\ \A t1, t2 \in BagToSet(tasks) : t1.cm = t2.cm /\ t1.path = t2.path

\* The Namespaces().List call of a handler and the error it returned: the add
\* and update handlers make it in deny-list mode, the delete handler whenever
\* the source is valid and enabled; NoCall when the handler returns before it.
NamespacesList(configMap, type, listOk) ==
    IF /\ validateConfiguration(configMap)
       /\ replicateEnabled(configMap)
       /\ (type = "DELETED" \/ Len(getAllowedNamespaces(configMap)) = 0)
    THEN [fn |-> "Namespaces().List", args |-> <<>>,
          result |-> IF listOk THEN "listed" ELSE "error"]
    ELSE NoCall

\* An AddFunc call for the newest pending notification instead of the oldest.
HandleAddedNewest ==
    /\ Ready
    /\ queue[Len(queue)].type = "ADDED"
    /\ \E listOk \in BOOLEAN :
         LET configMap == queue[Len(queue)].obj
             targets == addConfigMapAcrossNamespaces(configMap, listOk)
         IN  /\ tasks' = tasks (+) Goroutines("ADDED", "create", configMap, targets)
             /\ known' = Put(known, configMap)
             /\ call' = NamespacesList(configMap, "ADDED", listOk)
    /\ queue' = SubSeq(queue, 1, Len(queue) - 1)
    /\ UNCHANGED <<waiting, running, objects, envOps>>

\* AddFunc
HandleAdded ==
    /\ Ready
    /\ Head(queue).type = "ADDED"
    /\ \E listOk \in BOOLEAN :
         LET configMap == Head(queue).obj
             targets == addConfigMapAcrossNamespaces(configMap, listOk)
         IN  /\ tasks' = tasks (+) Goroutines("ADDED", "create", configMap, targets)
             /\ known' = Put(known, configMap)
             /\ call' = NamespacesList(configMap, "ADDED", listOk)
    /\ queue' = Tail(queue)
    /\ UNCHANGED <<waiting, running, objects, envOps>>

\* UpdateFunc, for a change of the object
HandleModified ==
    /\ Ready
    /\ Head(queue).type = "MODIFIED"
    /\ Key(Head(queue).obj) \in DOMAIN known
    /\ \E listOk \in BOOLEAN :
         LET newObj == Head(queue).obj
             currentObj == known[Key(newObj)]
             currentConfigMap == currentObj
             updatedConfigMap == UpdateFuncUpdated(currentObj, newObj)
             targets == updateConfigMapAcrossNamespaces(currentConfigMap, updatedConfigMap, listOk)
         IN  /\ tasks' = tasks (+) Goroutines("MODIFIED", "update", updatedConfigMap, targets)
             /\ known' = Put(known, newObj)
             /\ call' = NamespacesList(updatedConfigMap, "MODIFIED", listOk)
    /\ queue' = Tail(queue)
    /\ UNCHANGED <<waiting, running, objects, envOps>>

\* UpdateFunc, for a resync: old and new are the cached object
HandleSync ==
    /\ Ready
    /\ Head(queue).type = "SYNC"
    /\ \E listOk \in BOOLEAN :
         LET currentObj == Head(queue).obj
             updatedConfigMap == UpdateFuncUpdated(currentObj, currentObj)
             targets == updateConfigMapAcrossNamespaces(currentObj, updatedConfigMap, listOk)
         IN  /\ tasks' = tasks (+) Goroutines("SYNC", "update", updatedConfigMap, targets)
             /\ call' = NamespacesList(updatedConfigMap, "SYNC", listOk)
    /\ queue' = Tail(queue)
    /\ UNCHANGED <<waiting, running, objects, known, envOps>>

\* Delete calls that stop at the first one that fails.
RECURSIVE DeleteUntilError(_, _, _, _)
DeleteUntilError(store, name, targets, failed) ==
    IF targets = <<>> \/ Head(targets) \in failed
    THEN [store |-> store, events |-> <<>>]
    ELSE LET key == <<Head(targets), name>>
             hit == key \in DOMAIN store
             rest == DeleteUntilError(IF hit THEN Remove(store, key) ELSE store,
                                      name, Tail(targets), failed)
         IN  [store |-> rest.store,
              events |-> (IF hit THEN <<Event("DELETED", store[key])>> ELSE <<>>)
                         \o rest.events]

\* The Delete calls of deleteConfigMapAcrossNamespaces, one after the other:
\* a call fails when the store fails it (failed) or the object is not there.
RECURSIVE DeleteAll(_, _, _, _)
DeleteAll(store, name, targets, failed) ==
    IF targets = <<>> THEN [store |-> store, events |-> <<>>]
    ELSE LET key == <<Head(targets), name>>
             hit == key \in DOMAIN store /\ Head(targets) \notin failed
             rest == DeleteAll(IF hit THEN Remove(store, key) ELSE store,
                               name, Tail(targets), failed)
         IN  [store |-> rest.store,
              events |-> (IF hit THEN <<Event("DELETED", store[key])>> ELSE <<>>)
                         \o rest.events]

\* DeleteFunc
HandleDeleted ==
    /\ Ready
    /\ Head(queue).type = "DELETED"
    /\ \E listOk \in BOOLEAN, failed \in SUBSET Range(Namespaces) :
         LET configMap == Head(queue).obj
             targets == deleteConfigMapAcrossNamespaces(configMap, listOk)
             done == DeleteAll(objects, configMap.name, targets, failed)
         IN  /\ failed \subseteq Range(targets)
             /\ objects' = done.store
             /\ queue' = Tail(queue) \o done.events
             /\ known' = Remove(known, Key(configMap))
             /\ call' = NamespacesList(configMap, "DELETED", listOk)
    /\ UNCHANGED <<waiting, running, tasks, envOps>>

\* DeleteFunc, called with a cache.DeletedFinalStateUnknown: the type
\* assertion obj.(*v1.ConfigMap) panics and the process ends.
HandleDeletedFinalStateUnknown ==
    /\ Ready
    /\ Head(queue).type = "DELETED_UNKNOWN"
    /\ running' = FALSE
    /\ UNCHANGED <<objects, queue, known, tasks, envOps, waiting, call>>

\* The snapshot the handler called for the oldest pending notification
\* passes on to the ...AcrossNamespaces function.
HandlerSnapshot ==
    IF Head(queue).type = "MODIFIED"
    THEN UpdateFuncUpdated(known[Key(Head(queue).obj)], Head(queue).obj)
    ELSE Head(queue).obj

\* AddFunc, UpdateFunc or DeleteFunc whose Namespaces().List never returns.
\* The call is made by the handler itself, and the informer calls the
\* handlers one after the other from one goroutine: the notification stays
\* in hand and no handler is called again.
HandleListHangs ==
    /\ Ready
    /\ Head(queue).type \in {"ADDED", "MODIFIED", "SYNC", "DELETED"}
    /\ Head(queue).type = "MODIFIED" => Key(Head(queue).obj) \in DOMAIN known
    /\ validateConfiguration(HandlerSnapshot)
    /\ replicateEnabled(HandlerSnapshot)
    /\ Head(queue).type # "DELETED" => Len(getAllowedNamespaces(HandlerSnapshot)) = 0
    /\ known' = CASE Head(queue).type \in {"ADDED", "MODIFIED"} -> Put(known, Head(queue).obj)
                  [] Head(queue).type = "DELETED" -> Remove(known, Key(Head(queue).obj))
                  [] OTHER -> known
    /\ waiting' = "list"
    /\ UNCHANGED <<objects, queue, tasks, envOps, running, call>>

\* DeleteFunc whose n-th Delete call never returns, after the calls before
\* it have returned.
HandleDeleteHangs ==
    /\ Ready
    /\ Head(queue).type = "DELETED"
    /\ \E failed \in SUBSET Range(Namespaces) :
         LET configMap == Head(queue).obj
             targets == deleteConfigMapAcrossNamespaces(configMap, TRUE)
         IN  \E n \in 1..Len(targets) :
               LET before == SubSeq(targets, 1, n - 1)
                   done == DeleteAll(objects, configMap.name, before, failed)
               IN  /\ failed \subseteq Range(before)
                   /\ objects' = done.store
                   /\ queue' = queue \o done.events
                   /\ known' = Remove(known, Key(configMap))
    /\ waiting' = "delete"
    /\ UNCHANGED <<tasks, envOps, running, call>>

(***************************************************************************)
(* The goroutines: createConfigMap and updateConfigMap                     *)
(***************************************************************************)
Finish(t) == tasks (-) SetToBag({t})

\* A Create that replaces an object already there instead of failing.
CreateOrReplace(t, fail) ==
    LET obj == NewConfigMap(t.cm, t.ns)
        ok == ~fail /\ t.ns \in Range(Namespaces)
        changed == ok /\ (Key(obj) \notin DOMAIN objects \/ objects[Key(obj)] # obj)
    IN  /\ running
        /\ BagIn(t, tasks)
        /\ t.pc = "create"
        /\ objects' = IF ok THEN Put(objects, obj) ELSE objects
        /\ queue' = IF changed THEN Append(queue, Event("ADDED", obj)) ELSE queue
        /\ tasks' = Finish(t)
        /\ UNCHANGED <<call, waiting, running, known, envOps>>

\* ConfigMaps(ns).Create: createConfigMap, and updateConfigMap after a Get
\* that found nothing.
Create(t, fail) ==
    LET obj == NewConfigMap(t.cm, t.ns)
        ok == /\ ~fail
              /\ t.ns \in Range(Namespaces)
              /\ Key(obj) \notin DOMAIN objects
    IN  /\ running
        /\ BagIn(t, tasks)
        /\ t.pc = "create"
        /\ objects' = IF ok THEN Put(objects, obj) ELSE objects
        /\ queue' = IF ok THEN Append(queue, Event("ADDED", obj)) ELSE queue
        /\ tasks' = Finish(t)
        /\ UNCHANGED <<call, waiting, running, known, envOps>>

\* ConfigMaps(ns).Get of updateConfigMap
Get(t, fail) ==
    LET found == <<t.ns, t.cm.name>> \in DOMAIN objects
    IN  /\ running
        /\ BagIn(t, tasks)
        /\ t.pc = "get"
        /\ tasks' = IF fail THEN Finish(t)
                    ELSE Finish(t) (+) SetToBag({[t EXCEPT !.pc = IF found THEN "update"
                                                                   ELSE "create"]})
        /\ UNCHANGED <<call, waiting, running, objects, queue, known, envOps>>

\* ConfigMaps(ns).Update of updateConfigMap: the object sent replaces the
\* stored one; a write that changes nothing is no watch event.
Update(t, fail) ==
    LET obj == NewConfigMap(t.cm, t.ns)
        ok == ~fail /\ Key(obj) \in DOMAIN objects
        changed == ok /\ objects[Key(obj)] # obj
    IN  /\ running
        /\ BagIn(t, tasks)
        /\ t.pc = "update"
        /\ objects' = IF ok THEN Put(objects, obj) ELSE objects
        /\ queue' = IF changed THEN Append(queue, Event("MODIFIED", obj)) ELSE queue
        /\ tasks' = Finish(t)
        /\ UNCHANGED <<call, waiting, running, known, envOps>>

Next ==
    \/ \E c \in ExternalChoices : ExternalCreate(c[1], c[2])
    \/ \E k \in DOMAIN objects, c \in ExternalChoices, d \in ExternalData :
           c[1] = k[1] /\ ExternalUpdate(k, c[2], d)
    \/ \E k \in DOMAIN objects : ExternalDelete(k)
    \/ \E k \in DOMAIN objects : ExternalDeleteUnseen(k)
    \/ Resync
    \/ HandleAdded
    \/ HandleModified
    \/ HandleSync
    \/ HandleDeleted
    \/ HandleDeletedFinalStateUnknown
    \/ HandleListHangs
    \/ HandleDeleteHangs
    \/ \E t \in BagToSet(tasks), fail \in BOOLEAN : Create(t, fail)
    \/ \E t \in BagToSet(tasks), fail \in BOOLEAN : Get(t, fail)
    \/ \E t \in BagToSet(tasks), fail \in BOOLEAN : Update(t, fail)

Spec == Init /\ [][Next]_vars

(***************************************************************************)
(* Vocabulary of the properties                                            *)
(***************************************************************************)
\* A step of the controller's informer: one notification is handled.
Handles == HandleAdded \/ HandleModified \/ HandleSync \/ HandleDeleted

\* The object the notification being handled is about: the new snapshot of
\* an Added or Updated event, the last snapshot of a Deleted one.
Notified == Head(queue).obj

HasAnnotation(obj, key) == AnnotationName(key) \in DOMAIN obj.annotations
Annotation(obj, key) == obj.annotations[AnnotationName(key)]

\* The namespaces the goroutines started by this step are to write to.
StartedFor == {t.ns : t \in BagToSet(tasks' (-) tasks)}

\* The enablement annotation is absent, "false", or no boolean at all.
ReplicationOff(obj) ==
    \/ ~HasAnnotation(obj, replicationAllowedKey)
    \/ Annotation(obj, replicationAllowedKey) = <<"false">>
    \/ Annotation(obj, replicationAllowedKey) \notin
           {<<"1">>, <<"t">>, <<"T">>, <<"TRUE">>, <<"true">>, <<"True">>,
            <<"0">>, <<"f">>, <<"F">>, <<"FALSE">>, <<"false">>, <<"False">>}

\* C1: handling an Added, Updated, Deleted or resync event of an object whose
\* enablement annotation is absent, "false" or unparsable starts no create or
\* update goroutine and deletes nothing.
C1_DisabledSourceNoAction ==
    [][Handles /\ ReplicationOff(Notified) => tasks' = tasks /\ objects' = objects]_vars

\* The object bears the provenance annotation of source.
ReplicaOf(obj, source) ==
    /\ HasAnnotation(obj, replicatedFromKey)
    /\ Annotation(obj, replicatedFromKey) = source.namespace \o <<"_">> \o source.name

Unchanged(k) == k \in DOMAIN objects' /\ objects'[k] = objects[k]

\* C2: handling a Deleted event of source S leaves every object that does not
\* bear S's provenance annotation in place and unchanged.
C2_DeleteOnlyOwnReplicas ==
    [][HandleDeleted =>
          \A k \in DOMAIN objects : ~ReplicaOf(objects[k], Notified) => Unchanged(k)]_vars

\* A step of a goroutine of the update path (updateConfigMap).
UpdatePathStep(t) ==
    /\ t.path = "update"
    /\ \E fail \in BOOLEAN : Get(t, fail) \/ Create(t, fail) \/ Update(t, fail)

\* A step of a goroutine of the create path (createConfigMap).
CreatePathStep(t) ==
    /\ t.path = "create"
    /\ \E fail \in BOOLEAN : Create(t, fail)

\* C3: the update path leaves a same-named object of the target namespace
\* unchanged when its provenance annotation is absent or names another source.
C3_UpdateSkipsForeign ==
    [][\A t \in BagToSet(tasks) : UpdatePathStep(t) =>
          LET k == <<t.ns, t.cm.name>>
          IN  (k \in DOMAIN objects /\ ~ReplicaOf(objects[k], t.cm)) => Unchanged(k)]_vars

\* The enablement annotation is present and parses as true.
ReplicationOn(obj) ==
    /\ HasAnnotation(obj, replicationAllowedKey)
    /\ Annotation(obj, replicationAllowedKey) \in
           {<<"1">>, <<"t">>, <<"T">>, <<"TRUE">>, <<"true">>, <<"True">>}

\* A step of the controller (external actors and the timer count in envOps).
ControllerStep == envOps' = envOps

\* C4: no step of the controller creates, changes or deletes an enabled
\* source object.
C4_SourcesNeverWritten ==
    [][ControllerStep =>
          \A k \in DOMAIN objects : ReplicationOn(objects[k]) => Unchanged(k)]_vars

\* C5: no goroutine is ever started against the namespace of its own source.
C5_SourceNamespaceNeverTarget ==
    \A t \in BagToSet(tasks) : t.ns # t.cm.namespace

\* The entries of a comma-separated value: its maximal comma-free stretches.
Entries(v) ==
    {SubSeq(v, i, j) : <<i, j>> \in
        {p \in (1..(Len(v) + 1)) \X (0..Len(v)) :
            /\ p[1] <= p[2] + 1
            /\ \A x \in p[1]..p[2] : v[x] # ","
            /\ (p[1] = 1 \/ v[p[1] - 1] = ",")
            /\ (p[2] = Len(v) \/ v[p[2] + 1] = ",")}}

AllowList(obj) ==
    IF HasAnnotation(obj, allowedNamespacesKey)
    THEN Entries(Annotation(obj, allowedNamespacesKey)) ELSE {}

DenyList(obj) ==
    IF HasAnnotation(obj, excludedNamespacesKey)
    THEN Entries(Annotation(obj, excludedNamespacesKey)) ELSE {}

\* A notification handled by the create path or the update path.
Replicates == HandleAdded \/ HandleModified \/ HandleSync

\* C6: for an enabled source with a valid policy and a non-empty allow-list
\* the create and update paths write to exactly the namespaces of the
\* allow-list.
C6_AllowListIsTargetSet ==
    [][(/\ Replicates
        /\ ReplicationOn(Notified)
        /\ AllowList(Notified) \cap DenyList(Notified) = {}
        /\ AllowList(Notified) # {})
          => StartedFor = AllowList(Notified)]_vars

\* C7: for an enabled source with a valid policy and an empty allow-list the
\* create and update paths write to the namespaces listed, less the source's
\* own and those of the deny-list (or to none, when the listing failed).
C7_DenyListTargetSet ==
    [][(/\ Replicates
        /\ ReplicationOn(Notified)
        /\ AllowList(Notified) = {})
          => \/ StartedFor = {}
             \/ StartedFor = (Range(Namespaces) \ {Notified.namespace}) \ DenyList(Notified)]_vars

\* C8: a goroutine for a source with neither list annotation never targets a
\* namespace of the default excluded namespaces (kube-system).
C8_DefaultExcludedApply ==
    \A t \in BagToSet(tasks) :
        (/\ ~HasAnnotation(t.cm, allowedNamespacesKey)
         /\ ~HasAnnotation(t.cm, excludedNamespacesKey))
            => t.ns \notin Range(DefaultExcludedNamespaces)

\* C9: handling an Added, Updated or Deleted event of an object whose
\* allow-list and deny-list share a namespace starts no goroutine and deletes
\* nothing.
C9_OverlapNoAction ==
    [][((HandleAdded \/ HandleModified \/ HandleDeleted)
        /\ AllowList(Notified) \cap DenyList(Notified) # {})
          => tasks' = tasks /\ objects' = objects]_vars

C11_UpdateReplicatesNewSnapshot ==
    [][HandleModified =>
          \A t \in BagToSet(tasks' (-) tasks) : t.cm.data = Notified.data]_vars

\* C12: the update path, writing to a replica the source owns, keeps the
\* replica's namespace and name and every annotation but the provenance one.
C12_UpdateKeepsOtherAnnotations ==
    [][\A t \in BagToSet(tasks) : UpdatePathStep(t) =>
          LET k == <<t.ns, t.cm.name>>
          IN  (k \in DOMAIN objects /\ ReplicaOf(objects[k], t.cm)) =>
                 /\ k \in DOMAIN objects'
                 /\ objects'[k].namespace = objects[k].namespace
                 /\ objects'[k].name = objects[k].name
                 /\ \A a \in DOMAIN objects[k].annotations \ {AnnotationName(replicatedFromKey)} :
                        /\ a \in DOMAIN objects'[k].annotations
                        /\ objects'[k].annotations[a] = objects[k].annotations[a]]_vars

\* A step of a goroutine started for an Added notification or for a resync.
CreatePassStep(t) ==
    /\ t.event \in {"ADDED", "SYNC"}
    /\ \E fail \in BOOLEAN : Create(t, fail) \/ Get(t, fail) \/ Update(t, fail)

\* C13: the pass over the targets made for an Added notification or a resync
\* leaves a same-named object of the target unchanged when its provenance
\* annotation is absent or names another source.
C13_CreatePassSkipsForeign ==
    [][\A t \in BagToSet(tasks) : CreatePassStep(t) =>
          LET k == <<t.ns, t.cm.name>>
          IN  (k \in DOMAIN objects /\ ~ReplicaOf(objects[k], t.cm)) => Unchanged(k)]_vars

\* C14: when createConfigMap, the store not failing, finds in the target a
\* same-named object with the source's provenance, the object holds the
\* source's data afterwards.
C14_CreateOnOwnedUpdates ==
    [][\A t \in BagToSet(tasks) : (t.path = "create" /\ Create(t, FALSE)) =>
          LET k == <<t.ns, t.cm.name>>
          IN  (k \in DOMAIN objects /\ ReplicaOf(objects[k], t.cm)) =>
                 (k \in DOMAIN objects' /\ objects'[k].data = t.cm.data)]_vars

\* C15: handling a Deleted notification whose snapshot has a non-empty
\* allow-list deletes no object of a namespace outside the allow-list.
C15_DeleteWithinAllowList ==
    [][(HandleDeleted /\ AllowList(Notified) # {}) =>
          \A k \in DOMAIN objects : k[1] \notin AllowList(Notified) => Unchanged(k)]_vars

\* A step of a goroutine, of either path.
GoroutineStep(t) ==
    \E fail \in BOOLEAN : Create(t, fail) \/ Get(t, fail) \/ Update(t, fail)

\* The Deleted notification of the source has been handled: the source is
\* neither in the store nor in the informer's cache.
DeletedHandled(source) ==
    /\ Key(source) \notin DOMAIN objects
    /\ Key(source) \notin DOMAIN known

\* C16: once the Deleted notification of a source has been handled, no
\* goroutine started for an earlier notification of that source creates or
\* rewrites an object bearing the source's provenance, so none is left when
\* the goroutines have finished.
C16_NoReplicaAfterDelete ==
    [][\A t \in BagToSet(tasks) : (GoroutineStep(t) /\ DeletedHandled(t.cm)) =>
          LET k == <<t.ns, t.cm.name>>
          IN  ~(/\ k \in DOMAIN objects'
                /\ ReplicaOf(objects'[k], t.cm)
                /\ (k \notin DOMAIN objects \/ objects'[k] # objects[k]))]_vars

C19_TargetsIndependent ==
    [][/\ \A t \in BagToSet(tasks) : GoroutineStep(t) =>
             /\ \A u \in BagToSet(tasks) \ {t} : CopiesIn(u, tasks') >= CopiesIn(u, tasks)
             /\ \A j \in DOMAIN objects \ {<<t.ns, t.cm.name>>} : Unchanged(j)
       /\ HandleDeleted =>
             \A failed \in SUBSET Range(Namespaces) :
                 LET targets == deleteConfigMapAcrossNamespaces(Notified, TRUE)
                     done == DeleteAll(objects, Notified.name, targets, failed)
                 IN  (failed \subseteq Range(targets) /\ objects' = done.store) =>
                        \A ns \in Range(targets) \ failed :
                            <<ns, Notified.name>> \notin DOMAIN objects']_vars

\* DeleteFunc has just run for the source of team1: the Delete call in
\* kube-system, the first target, failed and left the replica there, and the
\* call in team2, a later target, was made all the same and deleted the replica.
C19_LaterTargetDeleted ==
    /\ tasks = EmptyBag
    /\ Len(queue) = 1
    /\ queue[1].type = "DELETED"
    /\ Key(queue[1].obj) = <<Team2, AppConfig>>
    /\ ReplicaOf(queue[1].obj, InitialSource)
    /\ DeletedHandled(InitialSource)
    /\ <<Team2, AppConfig>> \notin DOMAIN objects
    /\ <<KubeSystem, AppConfig>> \in DOMAIN objects
    /\ ReplicaOf(objects[<<KubeSystem, AppConfig>>], InitialSource)
    /\ <<KubeSystem, AppConfig>> \in DOMAIN known

\* C20: whatever fails inside a handler, the informer goes on delivering
\* notifications: the controller process is never brought down.
C20_DispatcherNeverStops == running

(***************************************************************************)
(* The controller left to run: the resync timer fires again and again      *)
(* (here once the goroutines of the last resync have returned), the        *)
(* informer goes on calling the handlers and the goroutines go on running. *)
(***************************************************************************)
ResyncTick ==
    /\ running
    /\ Quiet
    /\ tasks = EmptyBag
    /\ known # <<>>
    /\ queue' = queue \o SyncEvents(DOMAIN known)
    /\ UNCHANGED <<objects, known, tasks, envOps, running, waiting, call>>

Dispatch ==
    \/ HandleAdded
    \/ HandleModified
    \/ HandleSync
    \/ HandleDeleted
    \/ HandleDeletedFinalStateUnknown

Work == \E t \in BagToSet(tasks) : GoroutineStep(t)

\* The users act between two bursts of goroutines, not in the middle of one:
\* the interleavings of a user with running goroutines are those of Spec.
NextLive ==
    \/ /\ tasks = EmptyBag
       /\ \/ \E c \in ExternalChoices : ExternalCreate(c[1], c[2])
          \/ \E k \in DOMAIN objects, c \in ExternalChoices, d \in ExternalData :
                 c[1] = k[1] /\ ExternalUpdate(k, c[2], d)
          \/ \E k \in DOMAIN objects : ExternalDelete(k)
          \/ \E k \in DOMAIN objects : ExternalDeleteUnseen(k)
    \/ ResyncTick
    \/ Dispatch
    \/ Work

LiveSpec ==
    /\ Init
    /\ [][NextLive]_vars
    /\ WF_vars(ResyncTick)
    /\ WF_vars(Dispatch)
    /\ WF_vars(Work)

\* A step in which a call to the store fails: a Create, Get or Update of a
\* goroutine, the Namespaces().List of a handler, a Delete of DeleteFunc.
StoreCallFails ==
    \/ \E t \in BagToSet(tasks) :
           \/ Create(t, TRUE) /\ ~Create(t, FALSE)
           \/ Get(t, TRUE) /\ ~Get(t, FALSE)
           \/ Update(t, TRUE) /\ ~Update(t, FALSE)
    \/ HandleAdded /\ tasks' # tasks (+)
           Goroutines("ADDED", "create", Notified, addConfigMapAcrossNamespaces(Notified, TRUE))
    \/ (HandleModified \/ HandleSync) /\ StartedFor = {} /\
           \E old \in {Notified} \cup {known[k] : k \in DOMAIN known} :
               updateConfigMapAcrossNamespaces(old, old, TRUE) # <<>>
    \/ HandleDeleted /\ objects' #
           DeleteAll(objects, Notified.name, deleteConfigMapAcrossNamespaces(Notified, TRUE), {}).store

\* The targets the policy of a source resolves to: its allow-list, or the
\* namespaces less those of its deny-list (the default one when the source
\* carries neither list); never the source's own namespace.
ResolvedTargets(source) ==
    (IF AllowList(source) # {} THEN AllowList(source)
     ELSE Range(Namespaces) \
          (IF HasAnnotation(source, allowedNamespacesKey) \/ HasAnnotation(source, excludedNamespacesKey)
           THEN DenyList(source) ELSE Range(DefaultExcludedNamespaces)))
    \ {source.namespace}

\* Every resolved target of every enabled source with a valid policy holds a
\* replica of it with the source's data.
Converged ==
    \A s \in DOMAIN objects :
        (ReplicationOn(objects[s]) /\ AllowList(objects[s]) \cap DenyList(objects[s]) = {}) =>
            \A ns \in ResolvedTargets(objects[s]) :
                /\ <<ns, s[2]>> \in DOMAIN objects
                /\ ReplicaOf(objects[<<ns, s[2]>>], objects[s])
                /\ objects[<<ns, s[2]>>].data = objects[s].data

\* C17: if from some point on no call to the store fails (the external
\* actors act a bounded number of times), then with the resync timer, the
\* informer and the goroutines scheduled fairly the cluster converges and
\* stays converged.
C17_ResyncConverges ==
    <>[][~StoreCallFails]_vars => <>[]Converged

\* C21: a store call that never returns holds up only the goroutine that
\* made it: the informer's goroutine is never held inside such a call while
\* the notification of another source waits behind the one in hand.
C21_HungCallStallsOnlyItsTask ==
    waiting # "none" =>
        \A i \in 2..Len(queue) :
            ~(ReplicationOn(queue[i].obj) /\ Key(queue[i].obj) # Key(Head(queue).obj))

\* C22: every object the controller creates or updates is written by a
\* goroutine started for a notification of a source, has the name of that
\* source and bears the annotation configmap-replicator/replicated-from with
\* the value "<namespace>_<name>" of that source.
C22_WritesCarryProvenance ==
    [][/\ Handles =>
             \A t \in BagToSet(tasks' (-) tasks) : Key(t.cm) = Key(Notified)
       /\ ControllerStep =>
             \A k \in DOMAIN objects' :
                 (k \notin DOMAIN objects \/ objects'[k] # objects[k]) =>
                     \E t \in BagToSet(tasks) :
                         /\ GoroutineStep(t)
                         /\ k[1] = t.ns
                         /\ objects'[k].name = t.cm.name
                         /\ DOMAIN objects'[k].annotations = {"configmap-replicator/replicated-from"}
                         /\ objects'[k].annotations["configmap-replicator/replicated-from"]
                                = t.cm.namespace \o <<"_">> \o t.cm.name]_vars

\* The controller has created a replica of the source of team1 in
\* kube-system and, after a change of the source's data, updated it.
C22_ReplicaCreatedAndUpdated ==
    /\ <<KubeSystem, AppConfig>> \in DOMAIN objects
    /\ ReplicaOf(objects[<<KubeSystem, AppConfig>>], InitialSource)
    /\ objects[<<KubeSystem, AppConfig>>].data = ("key" :> "v2")
    /\ Key(InitialSource) \in DOMAIN objects
    /\ objects[Key(InitialSource)].data = ("key" :> "v2")

(***************************************************************************)
(* The pure functions taken by themselves: a behaviour is one call, on     *)
(* arguments drawn from the sets below, and call records its result.       *)
(***************************************************************************)
InitPure ==
    /\ objects = <<>>
    /\ queue = <<>>
    /\ known = <<>>
    /\ tasks = EmptyBag
    /\ envOps = 0
    /\ running = TRUE
    /\ waiting = "none"
    /\ call = NoCall

Returns(fn, args, result) ==
    /\ call' = [fn |-> fn, args |-> args, result |-> result]
    /\ UNCHANGED <<objects, queue, known, tasks, envOps, running, waiting>>

\* Names as Kubernetes admits them, letter by letter: a namespace name is a
\* DNS label (letters, digits and "-", no "-" at either end), the name of a
\* ConfigMap a DNS subdomain (labels joined by ".").  Neither holds a "_".
MaxNameLen == 3

Letters == {"a", "b"}

SeqsUpTo(S, n) == UNION {[1..m -> S] : m \in 1..n}

NamespaceNames ==
    {s \in SeqsUpTo(Letters \cup {"-"}, MaxNameLen) :
        s[1] \in Letters /\ s[Len(s)] \in Letters}

ObjectNames ==
    {s \in SeqsUpTo(Letters \cup {"-", "."}, MaxNameLen) :
        /\ s[1] \in Letters /\ s[Len(s)] \in Letters
        /\ \A i \in 1..(Len(s) - 1) : s[i] \in Letters \/ s[i + 1] \in Letters}

\* The provenance createConfigMap and updateConfigMap compute for a source.
CallReplicatedFrom ==
    /\ call = NoCall
    /\ \E ns \in NamespaceNames, name \in ObjectNames :
             Returns("ReplicatedFrom", <<ns, name>>,
                     ReplicatedFrom([namespace |-> ns, name |-> name]))

\* The slices the helpers of utils are called with: strings that differ by
\* a leading blank, and the empty string.
MaxSliceLen == 3

Elements == {<<>>, <<"team2">>, <<" ", "team2">>}

Slices == {<<>>} \cup SeqsUpTo(Elements, MaxSliceLen)

CallSlicesOverlap ==
    /\ call = NoCall
    /\ \E slice1 \in Slices, slice2 \in Slices :
             Returns("SlicesOverlap", <<slice1, slice2>>, SlicesOverlap(slice1, slice2))

CallListContains ==
    /\ call = NoCall
    /\ \E sl \in Slices, e \in Elements :
             Returns("ListContains", <<sl, e>>, ListContains(sl, e))

\* The values of allowed-namespaces and excluded-namespaces: the empty
\* string, "team2", commas and blanks in every order; Absent for an
\* annotation that is not there.
MaxValueLen == 4

PolicyValues == {<<>>} \cup SeqsUpTo({"team2", ",", " "}, MaxValueLen)

Absent == <<"absent">>

\* An enabled source of team1 with the two list annotations.
PolicyConfigMap(allowed, excluded) ==
    [namespace |-> Team1, name |-> AppConfig, data |-> InitialData,
     annotations |-> Enabled(<<"true">>)
                     @@ (IF allowed = Absent THEN <<>> ELSE Allowed(allowed))
                     @@ (IF excluded = Absent THEN <<>> ELSE Excluded(excluded))]

PolicyConfigMaps ==
    {PolicyConfigMap(a, e) : a \in PolicyValues \cup {Absent},
                             e \in PolicyValues \cup {Absent}}

CallGetAllowedNamespaces ==
    /\ call = NoCall
    /\ \E a \in PolicyValues \cup {Absent} :
             LET configMap == PolicyConfigMap(a, Absent)
             IN  Returns("getAllowedNamespaces", <<configMap>>, getAllowedNamespaces(configMap))

CallGetExcludedNamespaces ==
    /\ call = NoCall
    /\ \E e \in PolicyValues \cup {Absent} :
             LET configMap == PolicyConfigMap(Absent, e)
             IN  Returns("getExcludedNamespaces", <<configMap>>, getExcludedNamespaces(configMap))

CallValidateConfiguration ==
    /\ call = NoCall
    /\ \E configMap \in PolicyConfigMaps :
             Returns("validateConfiguration", <<configMap>>, validateConfiguration(configMap))

\* addConfigMapAcrossNamespaces with a Namespaces().List that succeeds: the
\* namespaces of the goroutines it starts.
CallAddConfigMapAcrossNamespaces ==
    /\ call = NoCall
    /\ \E configMap \in PolicyConfigMaps :
             Returns("addConfigMapAcrossNamespaces", <<configMap>>,
                     addConfigMapAcrossNamespaces(configMap, TRUE))

NextPure ==
    \/ CallReplicatedFrom
    \/ CallSlicesOverlap
    \/ CallListContains
    \/ CallGetAllowedNamespaces
    \/ CallGetExcludedNamespaces
    \/ CallValidateConfiguration
    \/ CallAddConfigMapAcrossNamespaces

PureSpec == InitPure /\ [][NextPure]_vars

\* C23: a provenance value identifies one source: the value computed for the
\* source (p1, n1) is the value of no other source (p2, n2).
C23_ProvenanceIdentifiesOneSource ==
    call.fn = "ReplicatedFrom" =>
        \A ns \in NamespaceNames, name \in ObjectNames :
            <<ns, name>> # call.args =>
                ReplicatedFrom([namespace |-> ns, name |-> name]) # call.result

\* The provenance of the source "b-a" of namespace "a" has been computed:
\* namespace and name are told apart by the "_" alone, as "a-b" and "a" are.
C23_HyphenatedSource ==
    /\ call.fn = "ReplicatedFrom"
    /\ call.args = << <<"a">>, <<"b", "-", "a">> >>
    /\ call.result = <<"a", "_", "b", "-", "a">>

\* A call of a goroutine that writes to the store: its Create or its Update.
WriteCall(t) == \E fail \in BOOLEAN : Create(t, fail) \/ Update(t, fail)

\* C24: nothing is retried: for one notification and one target there is at
\* most one write call.  A handler starts one goroutine per target, the
\* write call of a goroutine, failed or not, is its last step, and DeleteFunc
\* calls Delete once per target.
C24_OneWritePerEventAndTarget ==
    [][/\ Handles =>
             \A t \in BagToSet(tasks' (-) tasks) : CopiesIn(t, tasks' (-) tasks) = 1
       /\ \A t \in BagToSet(tasks) : WriteCall(t) => tasks' = tasks (-) SetToBag({t})
       /\ HandleDeleted =>
             LET targets == deleteConfigMapAcrossNamespaces(Notified, TRUE)
             IN  \A i, j \in 1..Len(targets) : targets[i] = targets[j] => i = j]_vars

(***************************************************************************)
(* The start of the process: Run of the command builds the controller with *)
(* the value of --reconciliation-interval and then runs it.                *)
(***************************************************************************)
\* time.ParseDuration, TRUE when it returns no error: an optional sign, then
\* "0" alone or one or more terms, each a number (digits with at most one
\* ".", at least one digit) followed by a unit.
Digits == {"0", "1", "2", "3", "4", "5", "6", "7", "8", "9"}

Units == {<<"n", "s">>, <<"u", "s">>, <<"m", "s">>, <<"s">>, <<"m">>, <<"h">>}

\* The number of leading elements of s that are in S.
RECURSIVE Leading(_, _)
Leading(s, S) ==
    IF s # <<>> /\ Head(s) \in S THEN 1 + Leading(Tail(s), S) ELSE 0

Drop(s, n) == SubSeq(s, n + 1, Len(s))

RECURSIVE ParseTerms(_)
ParseTerms(s) ==
    IF s = <<>> THEN TRUE
    ELSE LET pre == Leading(s, Digits)
             afterPre == Drop(s, pre)
             dot == afterPre # <<>> /\ Head(afterPre) = "."
             afterDot == IF dot THEN Tail(afterPre) ELSE afterPre
             post == IF dot THEN Leading(afterDot, Digits) ELSE 0
             rest == Drop(afterDot, post)
             i == Leading(rest, {c \in Range(rest) : c # "." /\ c \notin Digits})
             u == SubSeq(rest, 1, i)
         IN  /\ Head(s) = "." \/ Head(s) \in Digits
             /\ pre > 0 \/ post > 0
             /\ i > 0
             /\ u \in Units
             /\ ParseTerms(Drop(rest, i))

ParseDuration(s) ==
    LET unsigned == IF s # <<>> /\ Head(s) \in {"-", "+"} THEN Tail(s) ELSE s
    IN  IF unsigned = <<"0">> THEN TRUE
        ELSE unsigned # <<>> /\ ParseTerms(unsigned)

\* The values --reconciliation-interval (or REPLICATOR_INTERVAL) may be given.
MaxIntervalLen == 3

Intervals == {<<>>} \cup SeqsUpTo({"0", "1", "m", "s", ".", "-", "x"}, MaxIntervalLen)

InitStart ==
    /\ objects \in InitialStores
    /\ queue = <<>>
    /\ known = <<>>
    /\ tasks = EmptyBag
    /\ envOps = 0
    /\ running = TRUE
    /\ waiting = "none"
    /\ \E reconciliationInterval \in Intervals :
           call = [fn |-> "NewConfigMapReplicatorController",
                   args |-> <<reconciliationInterval>>, result |-> "called"]

\* A constructor that reports the error of time.ParseDuration and goes on.
NewControllerErrorLogged ==
    /\ running
    /\ call.fn = "NewConfigMapReplicatorController"
    /\ call.result = "called"
    /\ \E clientsetOk \in BOOLEAN :
         IF clientsetOk
         THEN call' = [call EXCEPT !.result = "constructed"] /\ running' = running
         ELSE call' = [call EXCEPT !.result = "fatal"] /\ running' = FALSE
    /\ UNCHANGED <<objects, queue, known, tasks, envOps, waiting>>

\* NewConfigMapReplicatorController: klog.Fatalf ends the process when the
\* interval does not parse or the clientset cannot be built.
NewConfigMapReplicatorController ==
    /\ running
    /\ call.fn = "NewConfigMapReplicatorController"
    /\ call.result = "called"
    /\ \E clientsetOk \in BOOLEAN :
         IF ParseDuration(call.args[1]) /\ clientsetOk
         THEN call' = [call EXCEPT !.result = "constructed"] /\ running' = running
         ELSE call' = [call EXCEPT !.result = "fatal"] /\ running' = FALSE
    /\ UNCHANGED <<objects, queue, known, tasks, envOps, waiting>>

\* controller.Run(ctx): the informer starts and lists the ConfigMaps of the
\* cluster.  What follows is Spec, whose Init is the state this step leaves.
Run ==
    /\ running
    /\ call.fn = "NewConfigMapReplicatorController"
    /\ call.result = "constructed"
    /\ queue' = ListEvents(objects, DOMAIN objects)
    /\ call' = [call EXCEPT !.fn = "Run", !.result = "listed"]
    /\ UNCHANGED <<objects, known, tasks, envOps, running, waiting>>

NextStart ==
    \/ NewConfigMapReplicatorController
    \/ Run

StartSpec == InitStart /\ [][NextStart]_vars

\* C25: a reconciliation interval that is no duration is fatal: once the
\* constructor has been through it the process is gone, the informer was
\* never started and the store was never called.
C25_BadIntervalIsFatal ==
    (call.fn \in {"NewConfigMapReplicatorController", "Run"}
        /\ call.result # "called" /\ ~ParseDuration(call.args[1])) =>
        /\ call.result = "fatal"
        /\ ~running
        /\ queue = <<>> /\ known = <<>> /\ tasks = EmptyBag
        /\ objects \in InitialStores

\* The process was started with the interval "1x" on a cluster that holds
\* ConfigMaps, and has ended in the constructor.
C25_EndedOnBadInterval ==
    /\ call.fn = "NewConfigMapReplicatorController"
    /\ call.args = << <<"1", "x">> >>
    /\ call.result = "fatal"
    /\ ~running
    /\ objects # <<>>
    /\ queue = <<>>

\* C26: SlicesOverlap(s1, s2) is true exactly when some string is an element
\* of both slices (never when one of them is empty), and SlicesOverlap(s2, s1)
\* is the same.
C26_SlicesOverlapIsSharedElement ==
    call.fn = "SlicesOverlap" =>
        /\ call.result = (\E i \in 1..Len(call.args[1]), j \in 1..Len(call.args[2]) :
                              call.args[1][i] = call.args[2][j])
        /\ (call.args[1] = <<>> \/ call.args[2] = <<>>) => call.result = FALSE
        /\ call.result = SlicesOverlap(call.args[2], call.args[1])

\* SlicesOverlap has answered true for two slices whose one common string
\* is the last element of the first and the first element of the second.
C26_OverlapAtDifferentPlaces ==
    /\ call.fn = "SlicesOverlap"
    /\ call.args = << << <<>>, <<"team2">> >>, << <<"team2">>, <<" ", "team2">> >> >>
    /\ call.result = TRUE

\* C27: ListContains(s, e) is true exactly when some element of s is equal
\* to e, and false for the empty list.
C27_ListContainsIsMembership ==
    call.fn = "ListContains" =>
        /\ call.result = (\E i \in 1..Len(call.args[1]) : call.args[1][i] = call.args[2])
        /\ call.args[1] = <<>> => call.result = FALSE

\* ListContains has found "team2" behind " team2", which it is not equal to.
C27_FoundBehindNearMiss ==
    /\ call.fn = "ListContains"
    /\ call.args = << << <<" ", "team2">>, <<"team2">> >>, <<"team2">> >>
    /\ call.result = TRUE

\* C28: the policy applied to a notification is computed from the
\* annotations of the snapshot notified and from nothing kept of earlier
\* notifications: the targets of the goroutines started are those the
\* annotations of that snapshot resolve to (or none, when the listing fails).
C28_PolicyFromNotifiedSnapshot ==
    [][Replicates =>
          \E listOk \in BOOLEAN :
              StartedFor = Range(addConfigMapAcrossNamespaces(Notified, listOk))]_vars

\* The pieces of a list put together again, a comma between two of them.
RECURSIVE JoinCommas(_)
JoinCommas(pieces) ==
    IF pieces = <<>> THEN <<>>
    ELSE IF Len(pieces) = 1 THEN pieces[1]
    ELSE pieces[1] \o <<",">> \o JoinCommas(Tail(pieces))

\* C29: the values of allowed-namespaces and excluded-namespaces are cut at
\* the commas and nothing is trimmed: the pieces hold no comma and, joined by
\* commas, give the value back; the overlap check and the resolution of the
\* targets take each piece as it stands for the name of a namespace.
C29_ListsSplitVerbatim ==
    LET configMap == call.args[1]
        listed(key) ==
            IF HasAnnotation(configMap, key)
            THEN /\ call.result # <<>>
                 /\ \A i \in 1..Len(call.result) : "," \notin Range(call.result[i])
                 /\ JoinCommas(call.result) = Annotation(configMap, key)
            ELSE call.result = <<>>
    IN  /\ call.fn = "getAllowedNamespaces" => listed(allowedNamespacesKey)
        /\ call.fn = "getExcludedNamespaces" => listed(excludedNamespacesKey)
        /\ call.fn = "validateConfiguration" =>
               call.result = (AllowList(configMap) \cap DenyList(configMap) = {})
        /\ (call.fn = "addConfigMapAcrossNamespaces"
                /\ AllowList(configMap) \cap DenyList(configMap) = {}) =>
               Range(call.result) =
                   IF AllowList(configMap) # {} THEN AllowList(configMap)
                   ELSE (Range(Namespaces) \ {configMap.namespace}) \ DenyList(configMap)

\* The targets of a source with allowed-namespaces "team2, team2" have been
\* resolved: they are "team2" and " team2".
C29_BlankKeptInTarget ==
    /\ call.fn = "addConfigMapAcrossNamespaces"
    /\ HasAnnotation(call.args[1], allowedNamespacesKey)
    /\ Annotation(call.args[1], allowedNamespacesKey) = <<"team2", ",", " ", "team2">>
    /\ call.result = << <<"team2">>, <<" ", "team2">> >>

\* C30: on the update path a target that holds no object of the source's
\* name gets a replica created with the data of the snapshot notified and
\* the source's provenance, and no Update call: the goroutines UpdateFunc
\* starts carry the snapshot notified; a Get that finds nothing leads to the
\* Create and not to the Update; the Create, the store not failing it,
\* leaves the replica with the data carried and is the goroutine's last call.
C30_UpdatePathCreatesIfAbsent ==
    [][/\ (HandleModified \/ HandleSync) =>
             \A t \in BagToSet(tasks' (-) tasks) :
                 t.path = "update" /\ t.cm.data = Notified.data
       /\ \A t \in BagToSet(tasks) :
             LET k == <<t.ns, t.cm.name>>
             IN  (t.path = "update" /\ k \notin DOMAIN objects) =>
                    /\ Get(t, FALSE) =>
                           tasks' = Finish(t) (+) SetToBag({[t EXCEPT !.pc = "create"]})
                    /\ (Create(t, FALSE) /\ t.ns \in Range(Namespaces)) =>
                           /\ k \in DOMAIN objects'
                           /\ objects'[k].data = t.cm.data
                           /\ ReplicaOf(objects'[k], t.cm)
                           /\ tasks' = Finish(t)]_vars

\* C31: after a Create or an Update that succeeds the replica's data is a
\* full copy of the data of the snapshot notified: the goroutines a handler
\* starts carry the data of that snapshot, and the object a goroutine writes
\* has the keys and values carried, no other key and no older value.
C31_ReplicaDataIsFullCopy ==
    [][/\ Replicates =>
             \A t \in BagToSet(tasks' (-) tasks) : t.cm.data = Notified.data
       /\ \A t \in BagToSet(tasks) :
             LET k == <<t.ns, t.cm.name>>
             IN  ((Create(t, FALSE) \/ Update(t, FALSE)) /\ objects' # objects) =>
                    /\ k \in DOMAIN objects'
                    /\ DOMAIN objects'[k].data = DOMAIN t.cm.data
                    /\ \A key \in DOMAIN t.cm.data :
                           objects'[k].data[key] = t.cm.data[key]]_vars

\* C32: the goroutines started for a notification of a source have all
\* returned when the handler is called for the next notification of that
\* source: a handler never starts while a goroutine of the same source is
\* still running.
C32_GoroutinesJoinedBeforeNextEvent ==
    [][Handles => \A t \in BagToSet(tasks) : Key(t.cm) # Key(Notified)]_vars

\* C33: the goroutines started for one notification write to different
\* objects: no two of them have the same target namespace, also when the
\* allow-list names a namespace twice.
C33_GoroutinesOfOneEventDisjoint ==
    [][Handles =>
          LET started == tasks' (-) tasks
          IN  \A t \in BagToSet(started) :
                  /\ CopiesIn(t, started) = 1
                  /\ \A u \in BagToSet(started) : u.ns = t.ns => u = t]_vars

\* The list annotation is there and its value is the empty string.
EmptyList(obj, key) == HasAnnotation(obj, key) /\ Annotation(obj, key) = <<>>

\* C34: a list annotation whose value is the empty string is the empty list,
\* as an absent one is: the list returned is empty, two empty lists do not
\* overlap, and with an empty allow-list the targets are the namespaces
\* listed less the source's own and less those of the deny-list.
C34_EmptyValueIsEmptyList ==
    LET configMap == call.args[1]
    IN  /\ (call.fn = "getAllowedNamespaces" /\ EmptyList(configMap, allowedNamespacesKey)) =>
               call.result = <<>>
        /\ (call.fn = "getExcludedNamespaces" /\ EmptyList(configMap, excludedNamespacesKey)) =>
               call.result = <<>>
        /\ (call.fn = "validateConfiguration"
                /\ EmptyList(configMap, allowedNamespacesKey)
                /\ EmptyList(configMap, excludedNamespacesKey)) => call.result = TRUE
        /\ (call.fn = "addConfigMapAcrossNamespaces"
                /\ EmptyList(configMap, allowedNamespacesKey)
                /\ ~HasAnnotation(configMap, excludedNamespacesKey)) =>
               Range(call.result) = Range(Namespaces) \ {configMap.namespace}

\* An object as the controller writes it: it bears the provenance annotation
\* and not the enablement annotation.
IsReplica(obj) ==
    /\ HasAnnotation(obj, replicatedFromKey)
    /\ ~HasAnnotation(obj, replicationAllowedKey)

\* C35: replication does not cascade.  What a goroutine writes bears the
\* provenance annotation alone, and handling a notification of such an
\* object starts no goroutine and deletes nothing.
C35_NoCascade ==
    [][/\ \A t \in BagToSet(tasks) : GoroutineStep(t) =>
             \A k \in DOMAIN objects' :
                 (k \notin DOMAIN objects \/ objects'[k] # objects[k]) =>
                     DOMAIN objects'[k].annotations = {AnnotationName(replicatedFromKey)}
       /\ (Handles /\ IsReplica(Notified)) => tasks' = tasks /\ objects' = objects]_vars

\* C36: handling an Added, Updated or resync notification deletes nothing,
\* and the replica of a namespace that is no target of the snapshot notified
\* stays as it is: the handler itself leaves the store alone and starts
\* goroutines for targets of that snapshot only, and a goroutine removes no
\* object and changes none but the one of its target.
C36_ReplicationNeverDeletes ==
    [][/\ Replicates =>
             /\ objects' = objects
             /\ StartedFor \subseteq Range(addConfigMapAcrossNamespaces(Notified, TRUE))
       /\ \A t \in BagToSet(tasks) : GoroutineStep(t) =>
             /\ DOMAIN objects \subseteq DOMAIN objects'
             /\ \A j \in DOMAIN objects \ {<<t.ns, t.cm.name>>} : Unchanged(j)]_vars

\* C37: when Namespaces().List fails in a handler, the handler returns at
\* once: it starts no goroutine and calls no Delete, the store is as it was,
\* and the notification is consumed without any other being produced.
C37_ListErrorDoesNothing ==
    [][(Handles /\ call'.fn = "Namespaces().List" /\ call'.result = "error") =>
           /\ tasks' = tasks
           /\ objects' = objects
           /\ queue' = Tail(queue)]_vars

\* Namespaces().List has failed in DeleteFunc for a source that was
\* replicated: the source is gone and its replica is still in the store.
C37_ListFailedOnDelete ==
    /\ call.fn = "Namespaces().List"
    /\ call.result = "error"
    /\ <<Team1, AppConfig>> \notin DOMAIN objects
    /\ <<Team1, AppConfig>> \notin DOMAIN known
    /\ <<Team2, AppConfig>> \in DOMAIN objects
    /\ objects[<<Team2, AppConfig>>] = NewConfigMap(InitialSource, Team2)
    /\ queue = <<>>
    /\ tasks = EmptyBag
====
